---- MODULE Spec2Model ----
(***************************************************************************)
(* The web code-snippet retriever of Strike (src/strike.js, and its        *)
(* environment-variable twin src/unnamed/part_001): the on-disk cache, the *)
(* timeout-guarded fetch, the retrying search, the snippet extractor, the  *)
(* orchestrator fetchCodeFromWeb and the SIGINT handler.                   *)
(***************************************************************************)
EXTENDS Integers, Sequences, FiniteSets, TLC

(***************************************************************************)
(* Strings.  A JavaScript string is a sequence of UTF-16 code units.  It   *)
(* is kept run-length encoded: a sequence of runs [u |-> unit, n |-> count]*)
(* with n > 0 and no two neighbouring runs of the same unit.  The units    *)
(* are classes of code units: "a" an ordinary BMP character, "nl" the line *)
(* feed, "hi"/"lo" a high/low surrogate, "fffd" U+FFFD.                    *)
(***************************************************************************)
Units == {"a", "nl", "hi", "lo", "fffd"}

Run(u, n) == IF n > 0 THEN << [u |-> u, n |-> n] >> ELSE << >>

\* s + t on run-length encoded strings: the runs meeting at the seam merge.
Concat(s, t) ==
    IF s = << >> THEN t
    ELSE IF t = << >> THEN s
    ELSE IF s[Len(s)].u = t[1].u
         THEN SubSeq(s, 1, Len(s) - 1)
                \o << [u |-> t[1].u, n |-> s[Len(s)].n + t[1].n] >>
                \o Tail(t)
         ELSE s \o t

\* s.length : the number of UTF-16 code units.
RECURSIVE StrLen(_)
StrLen(s) == IF s = << >> THEN 0 ELSE Head(s).n + StrLen(Tail(s))

\* s.slice(0, k) : the first k code units (a surrogate pair may be cut).
RECURSIVE Slice(_, _)
Slice(s, k) ==
    IF s = << >> \/ k <= 0 THEN << >>
    ELSE IF Head(s).n >= k THEN Run(Head(s).u, k)
         ELSE << Head(s) >> \o Slice(Tail(s), k - Head(s).n)

\* codes.join("\n")
RECURSIVE JoinNl(_)
JoinNl(codes) ==
    IF codes = << >> THEN << >>
    ELSE IF Len(codes) = 1 THEN codes[1]
         ELSE Concat(Concat(codes[1], Run("nl", 1)), JoinNl(Tail(codes)))

(***************************************************************************)
(* UTF-8.  fs.writeFile(file, data) encodes the string as UTF-8 and        *)
(* fs.readFile(file, "utf-8") decodes it.  A file's content is the         *)
(* run-length encoded sequence of the scalar values its bytes encode: "a", *)
(* "nl", "fffd" (EF BF BD) and "astral" (a 4-byte sequence).  Encoding     *)
(* pairs a high surrogate with the low surrogate that follows it and       *)
(* writes U+FFFD for every surrogate left alone.                           *)
(***************************************************************************)
RECURSIVE Utf8Encode(_)
Utf8Encode(s) ==
    IF s = << >> THEN << >>
    ELSE LET h == Head(s) IN
         IF h.u = "hi" /\ Len(s) >= 2 /\ s[2].u = "lo"
         THEN Concat(Run("fffd", h.n - 1),
                Concat(Run("astral", 1),
                  Concat(Run("fffd", s[2].n - 1), Utf8Encode(Tail(Tail(s))))))
         ELSE IF h.u \in {"hi", "lo"}
              THEN Concat(Run("fffd", h.n), Utf8Encode(Tail(s)))
              ELSE Concat(<< h >>, Utf8Encode(Tail(s)))

\* n astral scalars decode to n surrogate pairs.
RECURSIVE Pairs(_)
Pairs(n) == IF n <= 0 THEN << >> ELSE Run("hi", 1) \o Run("lo", 1) \o Pairs(n - 1)

RECURSIVE Utf8Decode(_)
Utf8Decode(b) ==
    IF b = << >> THEN << >>
    ELSE IF Head(b).u = "astral"
         THEN Pairs(Head(b).n) \o Utf8Decode(Tail(b))
         ELSE Concat(<< Head(b) >>, Utf8Decode(Tail(b)))

(***************************************************************************)
(* Cache keys.  Buffer.from(query).toString("base64"): the query's UTF-8   *)
(* bytes, three at a time, as four 6-bit digits of the standard alphabet   *)
(* (A-Z a-z 0-9 + /), padded with "=" (digit 64 here).  Digit 63 is "/".   *)
(***************************************************************************)
QueryChars == {"a", "b", "?"}

\* Buffer.from(query): the queries here are ASCII, one byte per character.
ByteOf(c) == CASE c = "a" -> 97 [] c = "b" -> 98 [] c = "?" -> 63

BufferFrom(query) == [i \in 1..Len(query) |-> ByteOf(query[i])]

Pad == 64
Slash == 63

RECURSIVE Base64(_)
Base64(bytes) ==
    IF bytes = << >> THEN << >>
    ELSE IF Len(bytes) = 1
         THEN << bytes[1] \div 4, (bytes[1] % 4) * 16, Pad, Pad >>
    ELSE IF Len(bytes) = 2
         THEN << bytes[1] \div 4,
                 (bytes[1] % 4) * 16 + bytes[2] \div 16,
                 (bytes[2] % 16) * 4, Pad >>
    ELSE << bytes[1] \div 4,
            (bytes[1] % 4) * 16 + bytes[2] \div 16,
            (bytes[2] % 16) * 4 + bytes[3] \div 64,
            bytes[3] % 64 >>
         \o Base64(SubSeq(bytes, 4, Len(bytes)))

(***************************************************************************)
(* path.join(cacheDir, name + ".txt").  A "/" in the name is a path        *)
(* separator: the path then has several segments below cacheDir.  The      *)
(* segments are the pieces of the name between separators, empty pieces    *)
(* dropped (path.join normalises "//"); the ".txt" suffix belongs to the   *)
(* last segment and keeps it from being empty.                             *)
(***************************************************************************)
RECURSIVE Segments(_, _)
Segments(name, cur) ==
    IF name = << >> THEN << cur >>
    ELSE IF Head(name) = Slash
         THEN (IF cur = << >> THEN << >> ELSE << cur >>) \o Segments(Tail(name), << >>)
         ELSE Segments(Tail(name), Append(cur, Head(name)))

CacheFile(query) == Segments(Base64(BufferFrom(query)), << >>)

(***************************************************************************)
(* Program constants.                                                      *)
(***************************************************************************)
SearchRetries == 2
SnippetRetries == 1
MaxResults == 5
MaxSnippetLen == 5000
MinValidLen == 200

(***************************************************************************)
(* Bounds of the explored environment.                                     *)
(***************************************************************************)
\* anchors on a search result page when one process runs alone
MaxPageLinks == 6
\* anchors on a search result page when both deployments share the cache
MaxSharedLinks == 1
\* length of the queries of the cache round trip
MaxQueryLen == 3
\* anchors on a search result page where progress is checked
MaxLiveLinks == 2

(***************************************************************************)
(* The two deployments of the retriever: src/strike.js asks for the        *)
(* description at a prompt, src/unnamed/part_001 reads it from             *)
(* STRIKE_DESCRIPTION.  Both use os.tmpdir()/strike_cache.                 *)
(***************************************************************************)
Procs == {"interactive", "env"}

Descriptions == { << "a", "b" >>, << "a", "b", "?" >> }

Environments ==
    { [runs |-> Procs, links |-> MaxSharedLinks, descs |-> Descriptions],
      [runs |-> {"interactive"}, links |-> MaxPageLinks, descs |-> { << "a", "b" >> }] }

None == [some |-> FALSE, v |-> << >>]
Some(t) == [some |-> TRUE, v |-> t]

\* a process: running, or exited with a status
Running == [exited |-> FALSE, code |-> 0]
Exited(code) == [exited |-> TRUE, code |-> code]

\* no SIGINT was delivered to the process
NotInterrupted == [at |-> "none", removed |-> {}]

\* an href attribute: a URL, or undefined when the anchor has none
Url(k) == << k >>
Undefined == << >>

(***************************************************************************)
(* What the network serves.  A search result page is the sequence of the   *)
(* href attributes of its a.result__a anchors; a candidate page is the     *)
(* sequence of the texts of its code-bearing elements.                     *)
(***************************************************************************)
SearchPages(maxLinks) ==
    UNION { { [k \in 1..n |-> IF k = m THEN Undefined ELSE Url(k)] : m \in {0, n} } :
            n \in 0..maxLinks }

CodePages ==
    { << >>,                                         \* no matching element
      << << >> >>,                                   \* one empty element
      << Run("a", MinValidLen) >>,                   \* 200 units
      << Run("a", MinValidLen \div 2), Run("a", MinValidLen \div 2) >>,
      << Run("a", MaxSnippetLen + MinValidLen) >>,   \* longer than the cap
      << Concat(Run("a", MaxSnippetLen - 1),         \* an astral character
                Run("hi", 1) \o Run("lo", 1)) >> }   \*   across the cap

VARIABLES
    files,      \* cacheDir: file name -> content (UTF-8 scalars)
    env,        \* the explored environment
    pc,         \* where each process's fetchCodeFromWeb call is
    desc,       \* its description argument
    cached,     \* what its getCached call gave
    search,     \* its fetchDuckDuckGo call
    tasks,      \* its fetchCodeSnippet calls, in urls order
    valid,      \* validSnippet while setCached is awaited
    ret,        \* what the call returned
    ddgLog,     \* "DuckDuckGo fetch failed after retries." messages logged
    timers,     \* the pending setTimeout timers of each process
    usedNet,    \* history: the call issued a fetch
    lateFirst,  \* history: a qualifying snippet arrived after one of a later rank
    searchHist, \* history: how the search attempts that found no link ended
    overlap,    \* history: a call started while another call was running
    prior,      \* history: what an earlier call for the same description returned
    writes,     \* history: file name -> number of writeFile calls that wrote it
    probe,      \* the cache round trip: last operation and its result
    exitCode,   \* whether each process has exited, and its exit status
    interrupted \* history: where SIGINT found the process, the files its handler removed

vars == << files, env, pc, desc, cached, search, tasks, valid, ret, ddgLog, timers,
           usedNet, lateFirst, searchHist, overlap, prior, writes, probe, exitCode,
           interrupted >>

(***************************************************************************)
(* The cache directory.  Only files directly in cacheDir exist: the        *)
(* program creates no directory below it (fs.ensureDir(cacheDir) only).    *)
(***************************************************************************)
PathExists(fs, path) == Len(path) = 1 /\ path[1] \in DOMAIN fs

ReadFile(fs, path) == Utf8Decode(fs[path[1]])

\* fs.writeFile fails with ENOENT when the parent directory does not exist
CanWrite(fs, path) == Len(path) = 1

WriteFile(fs, path, data) ==
    [f \in DOMAIN fs \cup {path[1]} |->
        IF f = path[1] THEN Utf8Encode(data) ELSE fs[f]]

\* faulty variant: getCached never finds the file
GetCachedValueMiss(fs, query) == None

\* getCached(query): the file's text, or null
GetCachedValue(fs, query) ==
    IF PathExists(fs, CacheFile(query))
    THEN Some(ReadFile(fs, CacheFile(query)))
    ELSE None

\* if (cached): null and the empty string are falsy
Truthy(opt) == opt.some /\ opt.v # << >>

(***************************************************************************)
(* fetchWithTimeout.  A call in progress is a slot [url, st, i, out]: st   *)
(* "fetch" while fetch(url) is awaited, "text" while res.text() is         *)
(* awaited, "done" once the caller's loop has returned out; i is the       *)
(* caller's loop index.  The pending timers of a process are the pairs     *)
(* << owner, i >>: owner 0 is fetchDuckDuckGo, owner k the fetchCodeSnippet*)
(* call of urls[k]; i is the attempt whose fetchWithTimeout set the timer. *)
(***************************************************************************)
IdleSlot == [url |-> Undefined, st |-> "none", i |-> 0, out |-> << >>]

\* const timer = setTimeout(() => controller.abort(), timeoutMs)
SetTimeout(T, id) == T \cup {id}

\* faulty variant: the success path forgets clearTimeout
FetchResolvedKeepsTimer(T, id) == T

\* const res = await fetch(...); clearTimeout(timer); return res
FetchResolved(T, id) == T \ {id}

\* catch (err) { clearTimeout(timer); throw err }
FetchRejected(T, id) == T \ {id}

\* the timer's callback has run: it is no longer pending
TimerRan(T, id) == T \ {id}

\* loop iteration i of a caller: fetchWithTimeout(url) is called
StartFetch(slot, i) == [slot EXCEPT !.st = "fetch", !.i = i]

Returned(slot, out) == [slot EXCEPT !.st = "done", !.i = 0, !.out = out]

\* for (let i = 0; i <= retries; i++) ... return <empty>
NextAttempt(slot, retries) ==
    IF slot.i + 1 <= retries THEN StartFetch(slot, slot.i + 1)
    ELSE Returned(slot, << >>)

\* the timers once a caller's loop has gone on to slot2
WithTimer(T, owner, slot2) ==
    IF slot2.st = "fetch" THEN SetTimeout(T, << owner, slot2.i >>) ELSE T

(***************************************************************************)
(* fetchDuckDuckGo(query, retries = 2)                                     *)
(***************************************************************************)
\* `https://duckduckgo.com/html/?q=${encodeURIComponent(query)}` with
\* query = description + " full project code"; nothing reads the URL's text
SearchUrl(description) == << "duckduckgo", description >>

\* links.push($(el).attr("href")) for each anchor; if (links.length) return links.slice(0, 5)
OnSearchPage(slot, page) ==
    IF Len(page) > 0
    THEN Returned(slot, SubSeq(page, 1, IF Len(page) < MaxResults THEN Len(page) ELSE MaxResults))
    ELSE NextAttempt(slot, SearchRetries)

\* faulty variant: every failed attempt logs
SearchCatchLogsAlways(slot) == 1

\* catch { if (i === retries) log(...) } : the number of messages logged
SearchCatchLogs(slot) == IF slot.i = SearchRetries THEN 1 ELSE 0

\* catch { ... } ; the loop goes on
SearchCatch(slot) == NextAttempt(slot, SearchRetries)

(***************************************************************************)
(* fetchCodeSnippet(url, retries = 1)                                      *)
(***************************************************************************)
\* codes.push($(el).text()) for each element; if (codes.length) return codes.join("\n").slice(0, 5000)
OnCodePage(slot, page) ==
    IF Len(page) > 0
    THEN Returned(slot, Slice(JoinNl(page), MaxSnippetLen))
    ELSE NextAttempt(slot, SnippetRetries)

\* faulty variant: a throw ends the extraction without a retry
SnippetCatchNoRetry(slot) == Returned(slot, << >>)

\* catch { if (i === retries) log(...) } ; the loop goes on
SnippetCatch(slot) == NextAttempt(slot, SnippetRetries)

(***************************************************************************)
(* fetchCodeFromWeb(description)                                           *)
(***************************************************************************)
\* results.flat(): the arrays in results, concatenated
RECURSIVE Flat(_)
Flat(results) == IF results = << >> THEN << >> ELSE Head(results) \o Flat(Tail(results))

IsValid(s) == StrLen(s) > MinValidLen

\* faulty variant: the last qualifying snippet instead of the first
RECURSIVE FindLast(_)
FindLast(snippets) ==
    IF snippets = << >> THEN None
    ELSE IF IsValid(snippets[Len(snippets)]) THEN Some(snippets[Len(snippets)])
         ELSE FindLast(SubSeq(snippets, 1, Len(snippets) - 1))

\* snippets.find((s) => s.length > 200)
RECURSIVE Find(_)
Find(snippets) ==
    IF snippets = << >> THEN None
    ELSE IF IsValid(Head(snippets)) THEN Some(Head(snippets))
         ELSE Find(Tail(snippets))

Snippets(p) == [k \in 1..Len(tasks[p]) |-> tasks[p][k].out]

\* faulty variant: the orchestrator resumes on the first extraction to finish
AnyDone(p) == \E k \in 1..Len(tasks[p]) : tasks[p][k].st = "done"

\* await Promise.all(urls.map(...)): every fetchCodeSnippet promise has resolved
AllDone(p) == \A k \in 1..Len(tasks[p]) : tasks[p][k].st = "done"

Init ==
    /\ files = << >>
    /\ env \in Environments
    /\ pc = [p \in Procs |-> "idle"]
    /\ desc = [p \in Procs |-> << >>]
    /\ cached = [p \in Procs |-> None]
    /\ search = [p \in Procs |-> IdleSlot]
    /\ tasks = [p \in Procs |-> << >>]
    /\ valid = [p \in Procs |-> << >>]
    /\ ret = [p \in Procs |-> None]
    /\ ddgLog = [p \in Procs |-> 0]
    /\ timers = [p \in Procs |-> {}]
    /\ usedNet = [p \in Procs |-> FALSE]
    /\ lateFirst = [p \in Procs |-> FALSE]
    /\ searchHist = [p \in Procs |-> << >>]
    /\ overlap = FALSE
    /\ prior = [p \in Procs |-> None]
    /\ writes = << >>
    /\ probe = [op |-> "none", q |-> << >>, t |-> << >>, res |-> None]
    /\ exitCode = [p \in Procs |-> Running]
    /\ interrupted = [p \in Procs |-> NotInterrupted]

\* return from fetchCodeFromWeb: the call's locals are gone
Return(p, v) ==
    /\ pc' = [pc EXCEPT ![p] = "done"]
    /\ ret' = [ret EXCEPT ![p] = Some(v)]
    /\ search' = [search EXCEPT ![p] = IdleSlot]
    /\ tasks' = [tasks EXCEPT ![p] = << >>]
    /\ valid' = [valid EXCEPT ![p] = << >>]
    /\ lateFirst' = [lateFirst EXCEPT ![p] = FALSE]
    /\ searchHist' = [searchHist EXCEPT ![p] = << >>]

\* main() calls fetchCodeFromWeb(description); getCached is awaited
Start(p, q) ==
    /\ p \in env.runs
    /\ pc[p] = "idle"
    /\ pc' = [pc EXCEPT ![p] = "getCached"]
    /\ desc' = [desc EXCEPT ![p] = q]
    /\ prior' = [prior EXCEPT ![p] =
            IF \E o \in Procs : pc[o] = "done" /\ desc[o] = q /\ Truthy(ret[o])
            THEN ret[CHOOSE o \in Procs : pc[o] = "done" /\ desc[o] = q /\ Truthy(ret[o])]
            ELSE None]
    /\ overlap' = (overlap \/ \E o \in Procs : pc[o] \notin {"idle", "done", "rejected"})
    /\ UNCHANGED << files, env, cached, search, tasks, valid, ret, ddgLog, timers,
                    usedNet, lateFirst, searchHist, writes, probe, exitCode,
                    interrupted >>

\* const cached = await getCached(description), which gave v; if (cached)
\* return cached; otherwise fetchDuckDuckGo(description + " full project code")
\* starts.
GetCachedGives(p, v) ==
    /\ cached' = [cached EXCEPT ![p] = v]
    /\ IF Truthy(v)
       THEN /\ Return(p, v.v)
            /\ UNCHANGED << timers, usedNet >>
       ELSE /\ pc' = [pc EXCEPT ![p] = "search"]
            /\ search' = [search EXCEPT ![p] =
                    StartFetch([IdleSlot EXCEPT !.url = SearchUrl(desc[p])], 0)]
            /\ timers' = [timers EXCEPT ![p] = SetTimeout(@, << 0, 0 >>)]
            /\ usedNet' = [usedNet EXCEPT ![p] = TRUE]
            /\ UNCHANGED << tasks, valid, ret, lateFirst, searchHist >>
    /\ UNCHANGED << files, env, desc, ddgLog, overlap, prior, writes, probe, exitCode,
                    interrupted >>

\* getCached with nothing between its fs.pathExists and its fs.readFile
GetCached(p) ==
    /\ pc[p] = "getCached"
    /\ GetCachedGives(p, GetCachedValue(files, desc[p]))

\* task k of the fan-out: fetchCodeSnippet(urls[k]) runs up to its first await
TaskSlot(url) == StartFetch([IdleSlot EXCEPT !.url = url], 0)

\* fetchDuckDuckGo's loop has gone on to slot2, logging `logs` messages.  Once it
\* has returned: urls = results.flat(); urls.map((url) => fetchCodeSnippet(url))
SearchGoesOn(p, slot2, T, logs, outcome) ==
    /\ ddgLog' = [ddgLog EXCEPT ![p] = @ + logs]
    /\ searchHist' = [searchHist EXCEPT ![p] =
            IF outcome = "links" THEN << >> ELSE Append(@, outcome)]
    /\ IF slot2.st = "done"
       THEN LET urls == Flat(<< slot2.out >>) IN
            /\ pc' = [pc EXCEPT ![p] = "fanout"]
            /\ search' = [search EXCEPT ![p] = IdleSlot]
            /\ tasks' = [tasks EXCEPT ![p] = [k \in 1..Len(urls) |-> TaskSlot(urls[k])]]
            /\ timers' = [timers EXCEPT ![p] =
                              T \cup { << k, 0 >> : k \in 1..Len(urls) }]
       ELSE /\ search' = [search EXCEPT ![p] = slot2]
            /\ timers' = [timers EXCEPT ![p] = WithTimer(T, 0, slot2)]
            /\ UNCHANGED << pc, tasks >>
    /\ UNCHANGED << files, env, cached, desc, valid, ret, usedNet, lateFirst, overlap,
                    prior, writes, probe, exitCode,
                    interrupted >>

\* the search request's response arrives: fetchWithTimeout returns res
SearchResponds(p) ==
    /\ pc[p] = "search" /\ search[p].st = "fetch"
    /\ search' = [search EXCEPT ![p].st = "text"]
    /\ timers' = [timers EXCEPT ![p] = FetchResolved(@, << 0, search[p].i >>)]
    /\ UNCHANGED << files, env, pc, desc, cached, tasks, valid, ret, ddgLog, usedNet,
                    lateFirst,
                    searchHist, overlap, prior, writes, probe, exitCode,
                    interrupted >>

\* the search request fails (network error): fetchWithTimeout rethrows
SearchFetchFails(p) ==
    /\ pc[p] = "search" /\ search[p].st = "fetch"
    /\ SearchGoesOn(p, SearchCatch(search[p]),
                    FetchRejected(timers[p], << 0, search[p].i >>),
                    SearchCatchLogs(search[p]), "threw")

\* a timer of the search fires: controller.abort().  The request or the body
\* read it belongs to, if still awaited, rejects.
SearchTimerFires(p, a) ==
    /\ << 0, a >> \in timers[p]
    /\ IF pc[p] = "search" /\ search[p].i = a
       THEN SearchGoesOn(p, SearchCatch(search[p]),
                IF search[p].st = "fetch"
                THEN FetchRejected(TimerRan(timers[p], << 0, a >>), << 0, a >>)
                ELSE TimerRan(timers[p], << 0, a >>),
                SearchCatchLogs(search[p]), "threw")
       ELSE /\ timers' = [timers EXCEPT ![p] = TimerRan(@, << 0, a >>)]
            /\ UNCHANGED << files, env, pc, desc, cached, search, tasks, valid, ret,
                            ddgLog, usedNet, lateFirst,
                    searchHist, overlap, prior, writes, probe, exitCode,
                    interrupted >>

\* await res.text() gives the result page; load(html) and the anchors
SearchBody(p) ==
    /\ pc[p] = "search" /\ search[p].st = "text"
    /\ \E page \in SearchPages(env.links) :
          SearchGoesOn(p, OnSearchPage(search[p], page), timers[p], 0,
                       IF Len(page) > 0 THEN "links" ELSE "empty")

\* await res.text() or load(html) throws
SearchBodyFails(p) ==
    /\ pc[p] = "search" /\ search[p].st = "text"
    /\ SearchGoesOn(p, SearchCatch(search[p]), timers[p],
                    SearchCatchLogs(search[p]), "threw")

\* fetchCodeSnippet of urls[k] has gone on to slot2
TaskGoesOn(p, k, slot2, T) ==
    /\ tasks' = [tasks EXCEPT ![p][k] = slot2]
    /\ timers' = [timers EXCEPT ![p] = WithTimer(T, k, slot2)]
    /\ lateFirst' = [lateFirst EXCEPT ![p] =
            @ \/ (/\ slot2.st = "done" /\ IsValid(slot2.out)
                  /\ \E j \in (k + 1)..Len(tasks[p]) :
                        tasks[p][j].st = "done" /\ IsValid(tasks[p][j].out))]
    /\ UNCHANGED << files, env, pc, desc, cached, search, valid, ret, ddgLog, usedNet,
                    searchHist, overlap, prior, writes, probe, exitCode,
                    interrupted >>

TaskResponds(p, k) ==
    /\ pc[p] = "fanout" /\ k \in 1..Len(tasks[p])
    /\ tasks[p][k].st = "fetch" /\ tasks[p][k].url # Undefined
    /\ tasks' = [tasks EXCEPT ![p][k].st = "text"]
    /\ timers' = [timers EXCEPT ![p] = FetchResolved(@, << k, tasks[p][k].i >>)]
    /\ UNCHANGED << files, env, pc, desc, cached, search, valid, ret, ddgLog, usedNet,
                    lateFirst,
                    searchHist, overlap, prior, writes, probe, exitCode,
                    interrupted >>

\* the request fails; fetch(undefined) can only fail
TaskFetchFails(p, k) ==
    /\ pc[p] = "fanout" /\ k \in 1..Len(tasks[p])
    /\ tasks[p][k].st = "fetch"
    /\ TaskGoesOn(p, k, SnippetCatch(tasks[p][k]),
                  FetchRejected(timers[p], << k, tasks[p][k].i >>))

TaskTimerFires(p, k, a) ==
    /\ k >= 1 /\ << k, a >> \in timers[p]
    /\ IF pc[p] = "fanout" /\ k \in 1..Len(tasks[p])
          /\ tasks[p][k].st \in {"fetch", "text"} /\ tasks[p][k].i = a
       THEN /\ tasks[p][k].st = "fetch" => tasks[p][k].url # Undefined
            /\ TaskGoesOn(p, k, SnippetCatch(tasks[p][k]),
                 IF tasks[p][k].st = "fetch"
                 THEN FetchRejected(TimerRan(timers[p], << k, a >>), << k, a >>)
                 ELSE TimerRan(timers[p], << k, a >>))
       ELSE /\ timers' = [timers EXCEPT ![p] = TimerRan(@, << k, a >>)]
            /\ UNCHANGED << files, env, pc, desc, cached, search, tasks, valid, ret,
                            ddgLog, usedNet, lateFirst,
                    searchHist, overlap, prior, writes, probe, exitCode,
                    interrupted >>

TaskBody(p, k) ==
    /\ pc[p] = "fanout" /\ k \in 1..Len(tasks[p])
    /\ tasks[p][k].st = "text"
    /\ \E page \in CodePages :
          TaskGoesOn(p, k, OnCodePage(tasks[p][k], page), timers[p])

TaskBodyFails(p, k) ==
    /\ pc[p] = "fanout" /\ k \in 1..Len(tasks[p])
    /\ tasks[p][k].st = "text"
    /\ TaskGoesOn(p, k, SnippetCatch(tasks[p][k]), timers[p])

\* faulty variant: the result is cached whether or not a snippet qualified
JoinCachesMisses(p) ==
    /\ pc[p] = "fanout" /\ AllDone(p)
    /\ pc' = [pc EXCEPT ![p] = "setCached"]
    /\ valid' = [valid EXCEPT ![p] = Find(Snippets(p)).v]
    /\ UNCHANGED << files, env, cached, desc, search, tasks, ret, lateFirst,
                    searchHist, ddgLog, timers, usedNet, overlap, prior, writes, probe, exitCode,
                    interrupted >>

\* await Promise.all(...) resumes; validSnippet = snippets.find(...);
\* if (validSnippet) await setCached(...) else return ""
Join(p) ==
    /\ pc[p] = "fanout" /\ AllDone(p)
    /\ LET validSnippet == Find(Snippets(p)) IN
       IF Truthy(validSnippet)
       THEN /\ pc' = [pc EXCEPT ![p] = "setCached"]
            /\ valid' = [valid EXCEPT ![p] = validSnippet.v]
            /\ UNCHANGED << search, tasks, ret, lateFirst, searchHist >>
       ELSE Return(p, << >>)
    /\ UNCHANGED << files, env, cached, desc, ddgLog, timers, usedNet, overlap, prior,
                    writes, probe, exitCode,
                    interrupted >>

\* fs.writeFile(file, data) succeeds; return validSnippet
SetCached(p) ==
    /\ pc[p] = "setCached"
    /\ CanWrite(files, CacheFile(desc[p]))
    /\ files' = WriteFile(files, CacheFile(desc[p]), valid[p])
    /\ writes' = LET f == CacheFile(desc[p])[1] IN
                 [g \in DOMAIN writes \cup {f} |->
                    IF g = f THEN (IF f \in DOMAIN writes THEN writes[f] + 1 ELSE 1)
                    ELSE writes[g]]
    /\ Return(p, valid[p])
    /\ UNCHANGED << env, cached, desc, ddgLog, timers, usedNet, overlap, prior, probe, exitCode,
                    interrupted >>

\* fs.writeFile(file, data) throws: fetchCodeFromWeb rejects, main().catch logs
SetCachedFails(p) ==
    /\ pc[p] = "setCached"
    /\ ~ CanWrite(files, CacheFile(desc[p]))
    /\ pc' = [pc EXCEPT ![p] = "rejected"]
    /\ search' = [search EXCEPT ![p] = IdleSlot]
    /\ tasks' = [tasks EXCEPT ![p] = << >>]
    /\ valid' = [valid EXCEPT ![p] = << >>]
    /\ lateFirst' = [lateFirst EXCEPT ![p] = FALSE]
    /\ searchHist' = [searchHist EXCEPT ![p] = << >>]
    /\ UNCHANGED << files, env, cached, desc, ret, ddgLog, timers, usedNet, overlap,
                    prior, writes, probe, exitCode,
                    interrupted >>

Next ==
    \E p \in Procs :
        \/ \E q \in env.descs : Start(p, q)
        \/ GetCached(p)
        \/ SearchResponds(p)
        \/ SearchFetchFails(p)
        \/ \E a \in 0..SearchRetries : SearchTimerFires(p, a)
        \/ SearchBody(p)
        \/ SearchBodyFails(p)
        \/ \E k \in 1..MaxResults :
              \/ TaskResponds(p, k)
              \/ TaskFetchFails(p, k)
              \/ \E a \in 0..SnippetRetries : TaskTimerFires(p, k, a)
              \/ TaskBody(p, k)
              \/ TaskBodyFails(p, k)
        \/ Join(p)
        \/ SetCached(p)
        \/ SetCachedFails(p)

Spec == Init /\ [][Next]_vars

(***************************************************************************)
(* The cache alone: getCached(q), then setCached(q, t), then getCached(q), *)
(* on an empty cache directory, for every query of up to MaxQueryLen       *)
(* characters and a set of texts.                                          *)
(***************************************************************************)
RECURSIVE SeqsOver(_, _)
SeqsOver(S, n) ==
    IF n = 0 THEN { << >> }
    ELSE LET shorter == SeqsOver(S, n - 1) IN
         shorter \cup { Append(q, c) : q \in shorter, c \in S }

AllQueries == SeqsOver(QueryChars, MaxQueryLen)

CacheTexts ==
    { << >>,
      Run("a", 1),
      JoinNl(<< Run("a", 1), Run("a", 1) >>),
      Run("a", 1) \o Run("hi", 1) \o Run("lo", 1),     \* a whole astral character
      Run("a", 1) \o Run("fffd", 1),
      Run("a", 1) \o Run("hi", 1),                     \* a surrogate left alone
      Run("lo", 1) \o Run("a", 1) }

InitCache ==
    /\ files = << >>
    /\ env = [runs |-> {}, links |-> 0, descs |-> {}]
    /\ pc = [p \in Procs |-> "idle"]
    /\ desc = [p \in Procs |-> << >>]
    /\ cached = [p \in Procs |-> None]
    /\ search = [p \in Procs |-> IdleSlot]
    /\ tasks = [p \in Procs |-> << >>]
    /\ valid = [p \in Procs |-> << >>]
    /\ ret = [p \in Procs |-> None]
    /\ ddgLog = [p \in Procs |-> 0]
    /\ timers = [p \in Procs |-> {}]
    /\ usedNet = [p \in Procs |-> FALSE]
    /\ lateFirst = [p \in Procs |-> FALSE]
    /\ searchHist = [p \in Procs |-> << >>]
    /\ overlap = FALSE
    /\ prior = [p \in Procs |-> None]
    /\ writes = << >>
    /\ \E q \in AllQueries, t \in CacheTexts :
          probe = [op |-> "start", q |-> q, t |-> t, res |-> None]
    /\ exitCode = [p \in Procs |-> Running]
    /\ interrupted = [p \in Procs |-> NotInterrupted]

\* await getCached(q)
CacheGet ==
    /\ probe.op \in {"start", "set"}
    /\ probe' = [probe EXCEPT !.op = IF probe.op = "start" THEN "got0" ELSE "got1",
                              !.res = GetCachedValue(files, probe.q)]
    /\ UNCHANGED << files, env, pc, desc, cached, search, tasks, valid, ret, ddgLog,
                    timers, usedNet, lateFirst, searchHist, overlap, prior, writes, exitCode,
                    interrupted >>

\* await setCached(q, t): fs.writeFile writes the file or throws
CacheSet ==
    /\ probe.op = "got0"
    /\ IF CanWrite(files, CacheFile(probe.q))
       THEN /\ files' = WriteFile(files, CacheFile(probe.q), probe.t)
            /\ probe' = [probe EXCEPT !.op = "set"]
       ELSE /\ files' = files
            /\ probe' = [probe EXCEPT !.op = "setFailed"]
    /\ UNCHANGED << env, pc, desc, cached, search, tasks, valid, ret, ddgLog,
                    timers, usedNet, lateFirst, searchHist, overlap, prior, writes, exitCode,
                    interrupted >>

NextCache == CacheGet \/ CacheSet

SpecCache == InitCache /\ [][NextCache]_vars

(***************************************************************************)
(* Progress.  One process, result pages of up to MaxLiveLinks anchors, and *)
(* what Node's event loop guarantees: a file operation that was issued     *)
(* completes, a promise that can resume resumes, a pending timer fires,    *)
(* and fetch(undefined) rejects by itself.  Nothing obliges a server: a    *)
(* request may stay unanswered and a response body may never end.          *)
(***************************************************************************)
LiveEnvironment == [runs |-> {"interactive"}, links |-> MaxLiveLinks, descs |-> Descriptions]

InitLive ==
    /\ files = << >>
    /\ env = LiveEnvironment
    /\ pc = [p \in Procs |-> "idle"]
    /\ desc = [p \in Procs |-> << >>]
    /\ cached = [p \in Procs |-> None]
    /\ search = [p \in Procs |-> IdleSlot]
    /\ tasks = [p \in Procs |-> << >>]
    /\ valid = [p \in Procs |-> << >>]
    /\ ret = [p \in Procs |-> None]
    /\ ddgLog = [p \in Procs |-> 0]
    /\ timers = [p \in Procs |-> {}]
    /\ usedNet = [p \in Procs |-> FALSE]
    /\ lateFirst = [p \in Procs |-> FALSE]
    /\ searchHist = [p \in Procs |-> << >>]
    /\ overlap = FALSE
    /\ prior = [p \in Procs |-> None]
    /\ writes = << >>
    /\ probe = [op |-> "none", q |-> << >>, t |-> << >>, res |-> None]
    /\ exitCode = [p \in Procs |-> Running]
    /\ interrupted = [p \in Procs |-> NotInterrupted]

EventLoop ==
    \A p \in Procs :
        /\ WF_vars(GetCached(p))
        /\ WF_vars(\E a \in 0..SearchRetries : SearchTimerFires(p, a))
        /\ \A k \in 1..MaxResults :
              /\ WF_vars(\E a \in 0..SnippetRetries : TaskTimerFires(p, k, a))
              /\ WF_vars(TaskFetchFails(p, k) /\ tasks[p][k].url = Undefined)
        /\ WF_vars(Join(p))
        /\ WF_vars(SetCached(p))
        /\ WF_vars(SetCachedFails(p))

SpecLive == InitLive /\ [][Next]_vars /\ EventLoop

(***************************************************************************)
(* The interrupt.  process.on("SIGINT") runs its handler on the process's  *)
(* one JavaScript thread, without yielding, up to process.exit(0): no      *)
(* callback of the process runs again, and its requests and timers die     *)
(* with it.  What does run beside the handler: the other process, and the  *)
(* file operation the process had in flight on the thread pool.            *)
(* fs.writeFile opens the file (creating it empty), then writes the data   *)
(* from the open's callback; with the handler running, only the open can   *)
(* still land.  The wipe also shows getCached's two file operations apart: *)
(* the file may go between fs.pathExists and fs.readFile.                  *)
(***************************************************************************)
IntDescriptions == { << "a", "b" >>, << "b" >>, << "a", "b", "?" >> }

IntEnvironment == [runs |-> Procs, links |-> MaxSharedLinks, descs |-> IntDescriptions]

InitInt ==
    /\ files = << >>
    /\ env = IntEnvironment
    /\ pc = [p \in Procs |-> "idle"]
    /\ desc = [p \in Procs |-> << >>]
    /\ cached = [p \in Procs |-> None]
    /\ search = [p \in Procs |-> IdleSlot]
    /\ tasks = [p \in Procs |-> << >>]
    /\ valid = [p \in Procs |-> << >>]
    /\ ret = [p \in Procs |-> None]
    /\ ddgLog = [p \in Procs |-> 0]
    /\ timers = [p \in Procs |-> {}]
    /\ usedNet = [p \in Procs |-> FALSE]
    /\ lateFirst = [p \in Procs |-> FALSE]
    /\ searchHist = [p \in Procs |-> << >>]
    /\ overlap = FALSE
    /\ prior = [p \in Procs |-> None]
    /\ writes = << >>
    /\ probe = [op |-> "none", q |-> << >>, t |-> << >>, res |-> None]
    /\ exitCode = [p \in Procs |-> Running]
    /\ interrupted = [p \in Procs |-> NotInterrupted]

\* faulty variant: the directory is left as it is (an emptyDir nobody awaits)
EmptyDirSyncSkipped(fs, items) == fs

\* fs.emptyDirSync(dir): items = readdirSync(dir), each item removed
EmptyDirSync(fs, items) == [f \in DOMAIN fs \ items |-> fs[f]]

\* SIGINT is delivered: the handler runs up to fs.emptyDirSync(cacheDir)
Sigint(p) ==
    /\ p \in env.runs
    /\ pc[p] \notin {"sigint", "exited"}
    /\ files' = EmptyDirSync(files, DOMAIN files)
    /\ pc' = [pc EXCEPT ![p] = "sigint"]
    /\ interrupted' = [interrupted EXCEPT ![p] = [at |-> pc[p], removed |-> DOMAIN files]]
    /\ search' = [search EXCEPT ![p] = IdleSlot]
    /\ tasks' = [tasks EXCEPT ![p] = << >>]
    /\ timers' = [timers EXCEPT ![p] = {}]
    /\ lateFirst' = [lateFirst EXCEPT ![p] = FALSE]
    /\ searchHist' = [searchHist EXCEPT ![p] = << >>]
    /\ UNCHANGED << env, desc, cached, valid, ret, ddgLog, usedNet, overlap, prior,
                    writes, probe, exitCode >>

\* the open of the fs.writeFile that setCached had in flight lands after the
\* handler emptied the directory: the file is created, empty
OpenLands(p) ==
    /\ pc[p] = "sigint" /\ valid[p] # << >>
    /\ CanWrite(files, CacheFile(desc[p]))
    /\ files' = WriteFile(files, CacheFile(desc[p]), << >>)
    /\ valid' = [valid EXCEPT ![p] = << >>]
    /\ UNCHANGED << env, pc, desc, cached, search, tasks, ret, ddgLog, timers, usedNet,
                    lateFirst, searchHist, overlap, prior, writes, probe, exitCode,
                    interrupted >>

\* process.exit(0)
SigintExit(p) ==
    /\ pc[p] = "sigint"
    /\ pc' = [pc EXCEPT ![p] = "exited"]
    /\ exitCode' = [exitCode EXCEPT ![p] = Exited(0)]
    /\ valid' = [valid EXCEPT ![p] = << >>]
    /\ UNCHANGED << files, env, desc, cached, search, tasks, ret, ddgLog, timers,
                    usedNet, lateFirst, searchHist, overlap, prior, writes, probe,
                    interrupted >>

\* getCached: await fs.pathExists(file) gave true; fs.readFile is awaited
GetCachedExists(p) ==
    /\ pc[p] = "getCached"
    /\ PathExists(files, CacheFile(desc[p]))
    /\ pc' = [pc EXCEPT ![p] = "readFile"]
    /\ UNCHANGED << files, env, desc, cached, search, tasks, valid, ret, ddgLog, timers,
                    usedNet, lateFirst, searchHist, overlap, prior, writes, probe,
                    exitCode, interrupted >>

\* getCached: fs.readFile gives the file's text
ReadFileGives(p) ==
    /\ pc[p] = "readFile"
    /\ PathExists(files, CacheFile(desc[p]))
    /\ GetCachedGives(p, Some(ReadFile(files, CacheFile(desc[p]))))

\* getCached: the file is gone, fs.readFile throws ENOENT: fetchCodeFromWeb
\* rejects
ReadFileFails(p) ==
    /\ pc[p] = "readFile"
    /\ ~ PathExists(files, CacheFile(desc[p]))
    /\ pc' = [pc EXCEPT ![p] = "rejected"]
    /\ UNCHANGED << files, env, desc, cached, search, tasks, valid, ret, ddgLog, timers,
                    usedNet, lateFirst, searchHist, overlap, prior, writes, probe,
                    exitCode, interrupted >>

NextInt ==
    \/ Next
    \/ \E p \in Procs :
          \/ Sigint(p)
          \/ OpenLands(p)
          \/ SigintExit(p)
          \/ GetCachedExists(p)
          \/ ReadFileGives(p)
          \/ ReadFileFails(p)

SpecInt == InitInt /\ [][NextInt]_vars

(***************************************************************************)
(* Properties.                                                             *)
(***************************************************************************)
Urls(ts) == [k \in 1..Len(ts) |-> ts[k].url]

FirstValidRank(s) ==
    LET ok == { i \in 1..Len(s) : StrLen(s[i]) > MinValidLen } IN
    IF ok = {} THEN 0 ELSE CHOOSE i \in ok : \A j \in ok : i <= j

\* C1: when the fan-out of a call ends, the snippet chosen is the one of the
\* lowest rank whose length exceeds 200, in whatever order the extractions
\* finished; it is what the call returns; with no such snippet the call
\* returns the empty string.  The fan-out has at most 5 extractions.
C1_OrderPreservingSelection ==
    [][\A p \in Procs :
          /\ (pc[p] = "fanout" /\ pc'[p] # "fanout") =>
                LET s == Snippets(p)
                    i == FirstValidRank(s)
                IN /\ Len(s) <= MaxResults
                   /\ IF i = 0
                      THEN pc'[p] = "done" /\ ret'[p] = Some(<< >>)
                      ELSE pc'[p] = "setCached" /\ valid'[p] = s[i]
          /\ (pc[p] = "setCached" /\ pc'[p] = "done") => ret'[p] = Some(valid[p])
      ]_vars

\* two extractions, both qualifying, the one of rank 2 finished first, rank 1 chosen
C1_Witness ==
    \E p \in Procs :
        /\ pc[p] = "setCached" /\ Len(tasks[p]) = 2 /\ lateFirst[p]
        /\ IsValid(tasks[p][1].out) /\ IsValid(tasks[p][2].out)
        /\ tasks[p][1].out # tasks[p][2].out
        /\ valid[p] = tasks[p][1].out

\* C2: a call whose getCached found an entry returns exactly that entry's text
\* and issues no fetch; and a call made after a call for the same description
\* returned a non-empty snippet S returns S and issues no fetch.
C2_CacheHitShortCircuits ==
    \A p \in Procs :
        pc[p] = "done" =>
            /\ cached[p].some => (ret[p] = cached[p] /\ ~ usedNet[p])
            /\ prior[p].some => (ret[p] = prior[p] /\ ~ usedNet[p])

\* C3: the cache directory changes only in the step of a call that returns, in
\* that step, the non-empty snippet it writes; a call that returns the empty
\* string leaves the directory, and what getCached gives for its description,
\* as they were.
C3_NoCacheOnMiss ==
    [][/\ (files' # files \/ writes' # writes) =>
              \E p \in Procs : /\ pc[p] = "setCached" /\ pc'[p] = "done"
                               /\ ret'[p] = Some(valid[p]) /\ IsValid(valid[p])
       /\ \A p \in Procs :
              (pc[p] # "done" /\ pc'[p] = "done" /\ ret'[p] = Some(<< >>)) =>
                  /\ files' = files /\ writes' = writes
                  /\ GetCachedValue(files', desc[p]) = GetCachedValue(files, desc[p])
      ]_vars

\* a call that went to the network, returned "" and left no entry
C3_Witness ==
    \E p \in Procs :
        /\ pc[p] = "done" /\ ret[p] = Some(<< >>) /\ usedNet[p]
        /\ GetCachedValue(files, desc[p]) = None

\* C4: getCached(q) before any setCached(q, .) gives null; setCached(q, t)
\* completes without error; getCached(q) after it gives exactly t.
C4_CacheRoundTrip ==
    /\ probe.op = "got0" => probe.res = None
    /\ probe.op # "setFailed"
    /\ probe.op = "got1" => probe.res = Some(probe.t)

\* C5: fetchCodeFromWeb never rejects.
C5_RetrieveCannotFail == \A p \in Procs : pc[p] # "rejected"

FirstResults(page) ==
    [k \in 1..(IF Len(page) < MaxResults THEN Len(page) ELSE MaxResults) |-> page[k]]

\* C6: fetchDuckDuckGo never raises; its attempts are numbered 0, 1, 2, one
\* at a time; an attempt that throws before the last one logs nothing and is
\* followed by the next attempt; it returns the first five anchors' hrefs, in
\* document order, of the page of the first attempt that has an anchor, and
\* logs nothing then; after three attempts without a link it returns the
\* empty sequence and has logged one message if the third attempt threw
\* (so exactly one when all three threw), none otherwise.
C6_SearchRetryBound ==
    [][\A p \in Procs :
          /\ pc[p] = "search" => pc'[p] \in {"search", "fanout"}
          /\ (pc[p] = "search" /\ pc'[p] = "search") =>
                /\ search'[p].i <= SearchRetries
                /\ \/ search'[p] = search[p] /\ ddgLog'[p] = ddgLog[p]
                   \/ /\ search'[p].i = search[p].i
                      /\ search[p].st = "fetch" /\ search'[p].st = "text"
                      /\ ddgLog'[p] = ddgLog[p]
                   \/ /\ search'[p].i = search[p].i + 1
                      /\ search'[p].st = "fetch"
                      /\ ddgLog'[p] = ddgLog[p]
                      /\ Len(searchHist'[p]) = search'[p].i
          /\ (pc[p] = "search" /\ pc'[p] = "fanout") =>
                IF tasks'[p] # << >>
                THEN /\ search[p].st = "text"
                     /\ \E page \in SearchPages(env.links) :
                           Len(page) > 0 /\ Urls(tasks'[p]) = FirstResults(page)
                     /\ ddgLog'[p] = 0
                ELSE /\ search[p].i = SearchRetries
                     /\ Len(searchHist'[p]) = SearchRetries + 1
                     /\ ddgLog'[p] =
                          IF searchHist'[p][SearchRetries + 1] = "threw" THEN 1 ELSE 0
      ]_vars

\* all three attempts threw: the empty sequence, one message
C6_Witness ==
    \E p \in Procs :
        /\ pc[p] = "fanout" /\ tasks[p] = << >>
        /\ searchHist[p] = << "threw", "threw", "threw" >>
        /\ ddgLog[p] = 1

\* C7: every step of a fetchCodeSnippet call is one of: its request is
\* answered; attempt 0 ends without a matching element (a throw, or a page
\* with none) and attempt 1 starts; attempt 1 ends so and the call returns
\* ""; a page with a matching element arrives and the call returns its
\* snippet at once.  The attempts are 0 and 1, and the orchestrator stays in
\* its fan-out: nothing is thrown to it.
C7_ExtractorFailSoft ==
    [][\A p \in Procs :
          pc[p] = "fanout" =>
             /\ pc'[p] \in {"fanout", "setCached", "done"}
             /\ pc'[p] = "fanout" =>
                  \A k \in 1..Len(tasks[p]) :
                     LET s == tasks[p][k]
                         t == tasks'[p][k]
                     IN \/ t = s
                        \/ /\ s.st = "fetch" /\ t = [s EXCEPT !.st = "text"]
                        \/ /\ s.st \in {"fetch", "text"} /\ s.i < SnippetRetries
                           /\ t = [s EXCEPT !.st = "fetch", !.i = s.i + 1]
                        \/ /\ s.st \in {"fetch", "text"} /\ s.i = SnippetRetries
                           /\ t.st = "done" /\ t.out = << >>
                        \/ /\ s.st = "text" /\ t.st = "done"
                           /\ \E page \in CodePages :
                                 Len(page) > 0 /\ t.out = Slice(JoinNl(page), MaxSnippetLen)
      ]_vars

\* an extraction of an anchor without href has used both attempts and returned ""
C7_Witness ==
    \E p \in Procs : \E k \in 1..Len(tasks[p]) :
        /\ pc[p] = "fanout"
        /\ tasks[p][k].url = Undefined /\ tasks[p][k].st = "done" /\ tasks[p][k].out = << >>

\* the pending timers of p all belong to fetchWithTimeout calls still awaiting fetch
TimersOwned(p) ==
    \A id \in timers[p] :
        IF id[1] = 0
        THEN pc[p] = "search" /\ search[p].st = "fetch" /\ search[p].i = id[2]
        ELSE /\ pc[p] = "fanout" /\ id[1] \in 1..Len(tasks[p])
             /\ tasks[p][id[1]].st = "fetch" /\ tasks[p][id[1]].i = id[2]

\* C8: a timer that fires while its request is awaited ends that attempt
\* without a response (the request is no longer awaited, the attempt did not
\* go on to read a body); and in every state each pending timer belongs to a
\* fetchWithTimeout call that has not finished, so none is pending, and none
\* can fire, once its call has finished.
C8_BoundedFetch ==
    [][\A p \in Procs :
          /\ TimersOwned(p)'
          /\ \A a \in 0..SearchRetries :
                (SearchTimerFires(p, a) /\ pc[p] = "search") =>
                    /\ << 0, a >> \notin timers'[p]
                    /\ ~ (pc'[p] = "search" /\ search'[p].i = a)
          /\ \A k \in 1..MaxResults : \A a \in 0..SnippetRetries :
                (TaskTimerFires(p, k, a) /\ pc[p] = "fanout") =>
                    /\ << k, a >> \notin timers'[p]
                    /\ ~ (tasks'[p][k].st \in {"fetch", "text"} /\ tasks'[p][k].i = a)
      ]_vars

\* one fetchWithTimeout call has returned its response, its timer is gone;
\* another still awaits its request, its timer is the one pending
C8_Witness ==
    \E p \in Procs : \E k, j \in 1..Len(tasks[p]) :
        /\ pc[p] = "fanout"
        /\ tasks[p][k].st = "text" /\ tasks[p][j].st = "fetch" /\ tasks[p][j].i = 1
        /\ timers[p] = { << j, 1 >> }

\* C9: every file of the cache directory holds a text longer than 200 and at
\* most 5000 units that is the snippet a finished call returned, and it is
\* the file of that call's description.
C9_OnlyValidatedCached ==
    \A f \in DOMAIN files :
        LET text == Utf8Decode(files[f]) IN
        /\ StrLen(text) > MinValidLen /\ StrLen(text) <= MaxSnippetLen
        /\ \E p \in Procs :
              pc[p] = "done" /\ CacheFile(desc[p]) = << f >> /\ ret[p] = Some(text)

\* C10 as stated: no file of the cache directory is written more than once.
C10_WrittenOnce == \A f \in DOMAIN writes : writes[f] <= 1

\* C10, amended: a file is written at most once by each call whose own
\* getCached missed, and never by a call that found it; so, unless calls
\* overlapped, it is written at most once.
C10_WrittenOncePerMiss ==
    /\ \A f \in DOMAIN writes :
          /\ writes[f] <= Cardinality({ p \in Procs :
                              /\ pc[p] = "done" /\ CacheFile(desc[p]) = << f >>
                              /\ usedNet[p] /\ ~ Truthy(cached[p]) /\ Truthy(ret[p]) })
          /\ ~ overlap => writes[f] <= 1
    /\ \A p \in Procs : (pc[p] = "done" /\ prior[p].some) => ~ usedNet[p]

\* two calls for one description, one after the other: the second found the entry
C10_Witness ==
    /\ ~ overlap
    /\ \A p \in Procs : pc[p] = "done" /\ Truthy(ret[p])
    /\ \E p \in Procs : ~ usedNet[p] /\ Truthy(cached[p])
    /\ \E f \in DOMAIN writes : writes[f] = 1

\* what a fetchDuckDuckGo call in state slot can return in its next step
SearchReturns(slot, maxLinks) ==
    { s.out : s \in { t \in {SearchCatch(slot)}
                             \cup { OnSearchPage(slot, page) : page \in SearchPages(maxLinks) } :
                       t.st = "done" } }

\* C11: the extractions of a call are started in the one step in which its
\* search returns, one per URL of the result set and in its order, each at
\* its first fetch, and the search has no fetch or timer left then; no
\* extraction is started, dropped or given another URL while the fan-out
\* lasts; the call leaves the fan-out (to select, write the cache and
\* return) only when every extraction has finished and no timer of the call
\* is pending; and while the cache write is awaited, and when the call
\* returns or rejects, every extraction has finished and no timer is pending.
C11_WaitForAllFanOut ==
    [][\A p \in Procs :
          /\ (tasks[p] = << >> /\ tasks'[p] # << >>) => (pc[p] = "search" /\ pc'[p] = "fanout")
          /\ (pc[p] = "search" /\ pc'[p] = "fanout") =>
                /\ search'[p] = IdleSlot
                /\ Urls(tasks'[p]) \in SearchReturns(search[p], env.links)
                /\ \A k \in 1..Len(tasks'[p]) :
                      tasks'[p][k].st = "fetch" /\ tasks'[p][k].i = 0
                /\ timers'[p] = { << k, 0 >> : k \in 1..Len(tasks'[p]) }
          /\ (pc[p] = "fanout" /\ pc'[p] = "fanout") => Urls(tasks'[p]) = Urls(tasks[p])
          /\ (pc[p] \in {"fanout", "setCached"} /\ pc'[p] # "fanout") =>
                /\ \A k \in 1..Len(tasks[p]) : tasks[p][k].st = "done"
                /\ timers[p] = {}
                /\ pc[p] = "fanout" => pc'[p] \in {"setCached", "done"}
          /\ pc'[p] \in {"done", "rejected"} =>
                /\ timers'[p] = {} /\ search'[p] = IdleSlot /\ tasks'[p] = << >>
      ]_vars

\* five extractions were awaited, the first returned "" and only the last
\* one qualifies: it is chosen once all five have finished
C11_Witness ==
    \E p \in Procs :
        /\ pc[p] = "setCached" /\ Len(tasks[p]) = MaxResults
        /\ \A k \in 1..MaxResults : tasks[p][k].st = "done"
        /\ tasks[p][1].out = << >>
        /\ \A k \in 1..(MaxResults - 1) : ~ IsValid(tasks[p][k].out)
        /\ valid[p] = tasks[p][MaxResults].out
        /\ timers[p] = {}

\* C12: every call that has started eventually ends: it returns (or, at the
\* least, rejects), whatever the servers do, a response body that never
\* ends included.
C12_RetrieveTerminates ==
    \A p \in Procs : (pc[p] = "getCached") ~> (pc[p] \in {"done", "rejected"})

\* C12, the timers: wherever a call is suspended on the network (a request
\* or a response body is awaited), a timer of that fetch is pending.
C12_SuspensionsTimed ==
    \A p \in Procs :
        /\ search[p].st \in {"fetch", "text"} => << 0, search[p].i >> \in timers[p]
        /\ \A k \in 1..Len(tasks[p]) :
              (tasks[p][k].st \in {"fetch", "text"} /\ tasks[p][k].url # Undefined)
                  => << k, tasks[p][k].i >> \in timers[p]

\* the handler of p in one step of a run: it removes every entry the
\* directory holds, whatever the query; from then on p only exits, with
\* status 0 and through the handler only, and nothing of its retrieve call
\* runs again
HandlerWipesThenExits(p) ==
    /\ (pc[p] \notin {"sigint", "exited"} /\ pc'[p] = "sigint") =>
          /\ files' = << >>
          /\ interrupted'[p].removed = DOMAIN files
    /\ pc[p] = "sigint" => pc'[p] \in {"sigint", "exited"}
    /\ pc[p] = "exited" => pc'[p] = "exited"
    /\ pc'[p] = "exited" => (pc[p] \in {"sigint", "exited"} /\ exitCode'[p] = Exited(0))
    /\ exitCode'[p].exited => pc'[p] = "exited"
    /\ pc[p] \in {"sigint", "exited"} =>
          /\ cached'[p] = cached[p] /\ ret'[p] = ret[p] /\ ddgLog'[p] = ddgLog[p]
          /\ usedNet'[p] = usedNet[p] /\ desc'[p] = desc[p]
          /\ search'[p] = IdleSlot /\ tasks'[p] = << >> /\ timers'[p] = {}

\* C13 as stated: the handler empties the directory, then the process exits
\* with status 0, no step of its retrieve call runs after the handler, and
\* at exit the cache directory holds no entry.
C13_InterruptWipe ==
    [][\A p \in Procs :
          /\ HandlerWipesThenExits(p)
          /\ (pc[p] = "sigint" /\ pc'[p] = "exited") => files' = << >>
      ]_vars

\* C13, amended: the handler removes every entry the directory holds when it
\* runs, then the process exits with status 0, and no step of its retrieve
\* call runs after the handler.  Of the interrupted call only the open of a
\* cache set in flight can still land, which leaves an empty file for its
\* description; that file, and entries another process writes meanwhile,
\* can be in the directory at exit.
C13_InterruptWipeBestEffort ==
    [][\A p \in Procs :
          /\ HandlerWipesThenExits(p)
          /\ (pc[p] = "sigint" /\ valid'[p] # valid[p]) =>
                /\ interrupted[p].at = "setCached" /\ valid'[p] = << >>
                /\ \/ pc'[p] = "exited" /\ files' = files
                   \/ /\ pc'[p] = "sigint" /\ Len(CacheFile(desc[p])) = 1
                      /\ DOMAIN files' = DOMAIN files \cup {CacheFile(desc[p])[1]}
                      /\ files'[CacheFile(desc[p])[1]] = << >>
                      /\ \A f \in DOMAIN files \ {CacheFile(desc[p])[1]} : files'[f] = files[f]
      ]_vars

\* a process interrupted while its cache set was in flight has exited with
\* status 0; its handler removed the entry of the other process's query, and
\* the directory is empty
C13_Witness ==
    \E p, o \in Procs :
        /\ pc[p] = "exited" /\ exitCode[p] = Exited(0)
        /\ interrupted[p].at = "setCached"
        /\ pc[o] = "done" /\ desc[o] # desc[p]
        /\ interrupted[p].removed = { CacheFile(desc[o])[1] }
        /\ files = << >>

====
